---- MODULE Spec2Model ----
(***************************************************************************)
(* The ingestion / indexing loop of src/compute_service/prepare.py:        *)
(* main polls the catalog, no_corpora_changes compares it with the one of  *)
(* the last pipeline pass, corpora_to_qdrant fans object_pipeline out over *)
(* a process pool and calls save_file_chunks_to_qdrant for every result.   *)
(*                                                                         *)
(* Durable state (survives the process): the vector index, the text cache  *)
(* directory and the local mirror of raw files.  Everything else is the    *)
(* state of one run of the process.                                        *)
(***************************************************************************)
EXTENDS Bags, FiniteSets, Integers, Sequences, TLC

VARIABLES
    pc,            \* position of the parent process in main / corpora_to_qdrant / save_file_chunks_to_qdrant
    error,         \* the uncaught exception that ended the process, "none" while it runs
    prev_corpora,  \* main: prev_corpora
    corpora,       \* main: corpora
    items,         \* corpora_to_qdrant: items
    task,          \* per item: position of object_pipeline in its pool worker
    outqueue,      \* the pool's result queue, item numbers in completion order
    chunks,        \* the chunk list the parent is handling
    exact_match,   \* save_file_chunks_to_qdrant: exact_match
    index,         \* the qdrant collection: a bag of payloads
    cache,         \* cache/text-<version>/...: text_path -> file content
    s3,            \* s3/...: the raw files present locally
    ops,           \* history: store / encoder calls of the current save_file_chunks_to_qdrant call
    index0,        \* history: the index when the current save_file_chunks_to_qdrant call started
    cycle,         \* history: what the current cycle did
    extractions,   \* history: text_path -> number of calls of the extraction collaborator
    lost           \* history: document-refs whose records an interrupted upsert deleted and did not re-insert

vars == <<pc, error, prev_corpora, corpora, items, task, outqueue, chunks, exact_match,
          index, cache, s3, ops, index0, cycle, extractions, lost>>

(***************************************************************************)
(* Bounds of the model.                                                    *)
(***************************************************************************)
ChunkSize == 3       \* tokens per chunk (bi_encoder.max_seq_length in the program)
ChunkOverlap == 1    \* tokens shared by consecutive chunks (25 in the program)
NumWorkers == 2      \* settings.compute_settings.num_workers
MaxCount == 2        \* the extraction counter saturates here

(***************************************************************************)
(* Catalog entries.  A filename is a sequence of its parts, the last one   *)
(* being its suffix; meta stands for the attributes of an entry that are   *)
(* not part of its identity (names of the course and the module).          *)
(***************************************************************************)
None == [is_none |-> TRUE]

Pdf(stem) == <<stem, ".pdf">>

Entry(c, m, f, meta) == [course_id |-> c, module_id |-> m, filename |-> f, meta |-> meta]

EntryA1 == Entry(1, 2, Pdf("a"), "m1")
EntryA2 == Entry(1, 2, Pdf("a"), "m2")
EntryA0 == Entry(1, 2, Pdf("a"), "m0")
EntryB1 == Entry(1, 3, Pdf("b"), "m1")
EntryE0 == Entry(2, 3, Pdf("e"), "m0")
EntryT1 == Entry(1, 4, <<"c", ".txt">>, "m1")

Corpora(files) == [moodle_files |-> files]

\* what GET /corpora may answer
Catalogs ==
    { Corpora(<<>>), Corpora(<<EntryA1>>), Corpora(<<EntryA2>>), Corpora(<<EntryA0>>),
      Corpora(<<EntryA1, EntryB1>>), Corpora(<<EntryB1, EntryA1>>),
      Corpora(<<EntryE0, EntryT1, EntryB1>>) }

\* the text the extraction collaborator yields for a raw file (tokens; 0 is noise)
RawText(name) ==
    CASE name[4] = Pdf("a") -> <<1, 0, 2, 3>>
      [] name[4] = Pdf("b") -> <<4>>
      [] OTHER -> <<>>

(***************************************************************************)
(* Pure functions of the pipeline.                                         *)
(***************************************************************************)
PDF_TO_TEXT_VERSION == "v1"

\* the suffix test lost: every entry passes
endswith_anything(filename) == TRUE

\* item.filename.endswith(".pdf")
endswith_pdf(filename) == Len(filename) > 0 /\ filename[Len(filename)] = ".pdf"

\* the object key of a document: built from course, module and filename alone
content_to_minio_object(course_id, module_id, filename) ==
    <<"moodle", course_id, module_id, filename>>

s3_object_name(obj) == content_to_minio_object(obj.course_id, obj.module_id, obj.filename)

file_path(obj) == <<"s3", s3_object_name(obj)>>

text_path(obj) == <<"cache", PDF_TO_TEXT_VERSION, s3_object_name(obj)>>

\* the human-readable preamble of a document, built from the entry's attributes
meta_prefix(obj) ==
    CASE obj.meta = "m1" -> <<7>>
      [] obj.meta = "m2" -> <<8>>
      [] OTHER -> <<>>

IsText(t) == t # 0

\* text normalisation: noise is dropped, the other tokens keep their order
clean_text(text) == SelectSeq(text, IsText)

Min(a, b) == IF a < b THEN a ELSE b

\* windows of ChunkSize tokens, each starting ChunkSize - ChunkOverlap tokens
\* after the one before, until a window reaches the end of the text
RECURSIVE SplitFrom(_, _)
SplitFrom(ids, start) ==
    IF start > Len(ids) THEN <<>>
    ELSE LET cur == Min(start + ChunkSize - 1, Len(ids))
         IN  IF cur = Len(ids) THEN << SubSeq(ids, start, cur) >>
             ELSE << SubSeq(ids, start, cur) >> \o SplitFrom(ids, start + ChunkSize - ChunkOverlap)

split_text(text) == SplitFrom(text, 1)

document_ref(obj) ==
    [course_id |-> obj.course_id, module_id |-> obj.module_id, filename |-> obj.filename]

\* chunk numbers counted from 1
Payload_from_one(obj, text, j) ==
    [text |-> text, document_ref |-> document_ref(obj), chunk_ref |-> [chunk_number |-> j + 1]]

\* the payload of chunk number j (enumerate counts from 0)
Payload(obj, text, j) ==
    [text |-> text, document_ref |-> document_ref(obj), chunk_ref |-> [chunk_number |-> j]]

\* object_pipeline from the text on: prefix, clean, split, tag
pipeline_chunks(obj, output) ==
    LET splitted == split_text(clean_text(meta_prefix(obj) \o output))
    IN  [j \in 1..Len(splitted) |-> Payload(obj, splitted[j], j - 1)]

(***************************************************************************)
(* The vector store: a bag of payloads (point ids are fresh on every       *)
(* upload, so equal payloads may be stored more than once).                *)
(***************************************************************************)
\* a filter that scopes by the course alone
duplicates_filter_course_only(ref) == [key \in {"course_id"} |-> ref[key]]

\* must: one match condition per key of the document-ref, key -> value to match
duplicates_filter(ref) == [key \in DOMAIN ref |-> ref[key]]

\* a record passes the filter when every condition of must holds of its payload
Matches(payload, filter) == \A key \in DOMAIN filter : payload.document_ref[key] = filter[key]

Matching(idx, filter) == { p \in DOMAIN idx : Matches(p, filter) }

Restrict(idx, S) == [p \in (DOMAIN idx) \cap S |-> idx[p]]

qdrant_count(idx, filter) == BagCardinality(Restrict(idx, Matching(idx, filter)))

\* a delete that drops the filter and empties the collection
qdrant_delete_all(idx, filter) == EmptyBag

\* a delete that removes nothing
qdrant_delete_nothing(idx, filter) == idx

qdrant_delete(idx, filter) == Restrict(idx, (DOMAIN idx) \ Matching(idx, filter))

RECURSIVE SeqToBag(_)
SeqToBag(s) == IF s = <<>> THEN EmptyBag ELSE SetToBag({Head(s)}) (+) SeqToBag(Tail(s))

\* an upload whose batch is sent a second time
qdrant_upload_collection_twice(idx, payload) == idx (+) SeqToBag(payload) (+) SeqToBag(payload)

qdrant_upload_collection(idx, payload) == idx (+) SeqToBag(payload)

\* the records of one document-ref
RecordsOf(idx, ref) == Restrict(idx, { p \in DOMAIN idx : p.document_ref = ref })


(***************************************************************************)
(* Initial state: a fresh deployment, the process about to poll.           *)
(***************************************************************************)
NoCycle == [prev |-> None, invoked |-> FALSE, ops |-> {}, written |-> {}, restored |-> {}]

EmptyMap == [x \in {} |-> x]

Init ==
    /\ pc = "fetch"
    /\ error = "none"
    /\ prev_corpora = None
    /\ corpora = None
    /\ items = <<>>
    /\ task = <<>>
    /\ outqueue = <<>>
    /\ chunks = <<>>
    /\ exact_match = 0
    /\ index = EmptyBag
    /\ cache = EmptyMap
    /\ s3 = {}
    /\ ops = <<>>
    /\ index0 = EmptyBag
    /\ cycle = NoCycle
    /\ extractions = EmptyMap
    /\ lost = {}

\* a start that keeps the catalog stored by the run before
Forget_keeps_prev_corpora ==
    /\ prev_corpora' = prev_corpora
    /\ corpora' = None
    /\ items' = <<>>
    /\ task' = <<>>
    /\ outqueue' = <<>>
    /\ chunks' = <<>>
    /\ exact_match' = 0
    /\ ops' = <<>>
    /\ index0' = EmptyBag
    /\ cycle' = NoCycle

\* the memory of the process is gone
Forget ==
    /\ prev_corpora' = None
    /\ corpora' = None
    /\ items' = <<>>
    /\ task' = <<>>
    /\ outqueue' = <<>>
    /\ chunks' = <<>>
    /\ exact_match' = 0
    /\ ops' = <<>>
    /\ index0' = EmptyBag
    /\ cycle' = NoCycle

durable == <<index, cache, s3, extractions>>
poolvars == <<items, task, outqueue>>
savevars == <<chunks, exact_match, ops, index0>>

(***************************************************************************)
(* main                                                                    *)
(***************************************************************************)
\* no_corpora_changes: structural equality of the dumped entry lists
model_dump(entry) == [field \in DOMAIN entry |-> entry[field]]

\* a comparison that ignores the order of the entries
no_corpora_changes_unordered(prev, curr) ==
    IF prev = None THEN FALSE
    ELSE { prev.moodle_files[i] : i \in 1..Len(prev.moodle_files) }
             = { curr.moodle_files[i] : i \in 1..Len(curr.moodle_files) }

\* no stored catalog taken for an empty one
no_corpora_changes_none_is_empty(prev, curr) ==
    IF prev = None THEN curr.moodle_files = <<>>
    ELSE prev.moodle_files = curr.moodle_files

no_corpora_changes(prev, curr) ==
    IF prev = None THEN FALSE
    ELSE LET _prev == [i \in 1..Len(prev.moodle_files) |-> model_dump(prev.moodle_files[i])]
             _curr == [i \in 1..Len(curr.moodle_files) |-> model_dump(curr.moodle_files[i])]
         IN  _prev = _curr

\* fetch_corpora returns a catalog
FetchOk ==
    /\ pc = "fetch"
    /\ \E c \in Catalogs : corpora' = c
    /\ pc' = "compare"
    /\ cycle' = [NoCycle EXCEPT !.prev = prev_corpora]
    /\ UNCHANGED <<error, prev_corpora, poolvars, savevars, durable, lost>>

\* fetch_corpora raises (raise_for_status, network, validation): nothing catches it
FetchRaise ==
    /\ pc = "fetch"
    /\ pc' = "exited"
    /\ error' = "fetch"
    /\ Forget
    /\ UNCHANGED <<durable, lost>>

\* main: the catalog is the one of the last pipeline pass
NoChanges ==
    /\ pc = "compare"
    /\ no_corpora_changes(prev_corpora, corpora)
    /\ pc' = "sleep"
    /\ UNCHANGED <<error, prev_corpora, corpora, poolvars, savevars, durable, cycle, lost>>

PdfItems(files) == SelectSeq(files, LAMBDA item : endswith_pdf(item.filename))

\* a task: where its worker is, what it returned, whether the text came from the cache
Queued == [state |-> "queued", result |-> <<>>, hit |-> FALSE]

Raised == {"fetch_raised", "extract_raised"}

\* the catalog stored before the pass instead of after it
StartPipeline_stores_first ==
    /\ pc = "compare"
    /\ ~no_corpora_changes(prev_corpora, corpora)
    /\ items' = PdfItems(corpora.moodle_files)
    /\ task' = [i \in 1..Len(items') |-> Queued]
    /\ outqueue' = <<>>
    /\ cycle' = [cycle EXCEPT !.invoked = TRUE]
    /\ prev_corpora' = corpora
    /\ pc' = "pool"
    /\ UNCHANGED <<error, corpora, savevars, durable, lost>>

\* main calls corpora_to_qdrant, which filters the items and opens the pool
StartPipeline ==
    /\ pc = "compare"
    /\ ~no_corpora_changes(prev_corpora, corpora)
    /\ items' = PdfItems(corpora.moodle_files)
    /\ task' = [i \in 1..Len(items') |-> Queued]
    /\ outqueue' = <<>>
    /\ cycle' = [cycle EXCEPT !.invoked = TRUE]
    /\ pc' = "pool"
    /\ UNCHANGED <<error, prev_corpora, corpora, savevars, durable, lost>>

\* time.sleep is over
Sleep ==
    /\ pc = "sleep"
    /\ pc' = "fetch"
    /\ UNCHANGED <<error, prev_corpora, corpora, poolvars, savevars, durable, cycle, lost>>


(***************************************************************************)
(* object_pipeline, run by the pool's workers while the parent is inside   *)
(* the with-block of corpora_to_qdrant.                                    *)
(***************************************************************************)
PoolOpen == pc \in {"pool", "count", "delete", "encode", "upload", "returned"}

Busy == { i \in 1..Len(items) : task[i].state \in {"started", "extracting"} }

\* the existence check of the text file lost
text_path_never_exists(files, obj) == FALSE

text_path_exists(files, obj) == text_path(obj) \in DOMAIN files

Put(f, k, v) == [x \in (DOMAIN f) \cup {k} |-> IF x = k THEN v ELSE f[x]]

Count1(f, k) == Put(f, k, Min(MaxCount, (IF k \in DOMAIN f THEN f[k] ELSE 0) + 1))

Finish(i, state, result, hit) ==
    /\ task' = [task EXCEPT ![i] = [state |-> state, result |-> result, hit |-> hit]]
    /\ outqueue' = Append(outqueue, i)

\* a free worker takes the item; the raw file is fetched when it is not there
PipelineStart(i) ==
    /\ PoolOpen
    /\ task[i].state = "queued"
    /\ Cardinality(Busy) < NumWorkers
    /\ s3' = s3 \cup {file_path(items[i])}
    /\ task' = [task EXCEPT ![i].state = "started"]
    /\ UNCHANGED <<pc, error, prev_corpora, corpora, items, outqueue, savevars,
                   index, cache, extractions, cycle, lost>>

\* minio_client.fget_object raises
PipelineFetchRaise(i) ==
    /\ PoolOpen
    /\ task[i].state = "queued"
    /\ Cardinality(Busy) < NumWorkers
    /\ file_path(items[i]) \notin s3
    /\ Finish(i, "fetch_raised", <<>>, FALSE)
    /\ UNCHANGED <<pc, error, prev_corpora, corpora, items, savevars, durable, cycle, lost>>

\* no text file yet: open(text_path, "w") creates it, empty
PipelineOpen(i) ==
    /\ PoolOpen
    /\ task[i].state = "started"
    /\ ~text_path_exists(cache, items[i])
    /\ cache' = Put(cache, text_path(items[i]), <<>>)
    /\ task' = [task EXCEPT ![i].state = "extracting"]
    /\ UNCHANGED <<pc, error, prev_corpora, corpora, items, outqueue, savevars,
                   index, s3, extractions, cycle, lost>>

\* a worker that uploads its chunks itself
PipelineExtract_uploads(i) ==
    /\ PoolOpen
    /\ task[i].state = "extracting"
    /\ LET output == RawText(s3_object_name(items[i]))
       IN  /\ cache' = Put(cache, text_path(items[i]), output)
           /\ Finish(i, "done", pipeline_chunks(items[i], output), FALSE)
           /\ index' = qdrant_upload_collection(index, pipeline_chunks(items[i], output))
    /\ extractions' = Count1(extractions, text_path(items[i]))
    /\ UNCHANGED <<pc, error, prev_corpora, corpora, items, savevars, s3, cycle, lost>>

\* the document is converted, the text written, the chunks returned
PipelineExtract(i) ==
    /\ PoolOpen
    /\ task[i].state = "extracting"
    /\ LET output == RawText(s3_object_name(items[i]))
       IN  /\ cache' = Put(cache, text_path(items[i]), output)
           /\ Finish(i, "done", pipeline_chunks(items[i], output), FALSE)
    /\ extractions' = Count1(extractions, text_path(items[i]))
    /\ UNCHANGED <<pc, error, prev_corpora, corpora, items, savevars, index, s3, cycle, lost>>

\* the conversion raises inside the with-block: the file is closed as it is
PipelineExtractRaise(i) ==
    /\ PoolOpen
    /\ task[i].state = "extracting"
    /\ Finish(i, "extract_raised", <<>>, FALSE)
    /\ extractions' = Count1(extractions, text_path(items[i]))
    /\ UNCHANGED <<pc, error, prev_corpora, corpora, items, savevars, index, cache, s3,
                   cycle, lost>>

\* the text file exists: its content is the text
PipelineRead(i) ==
    /\ PoolOpen
    /\ task[i].state = "started"
    /\ text_path_exists(cache, items[i])
    /\ Finish(i, "done", pipeline_chunks(items[i], cache[text_path(items[i])]), TRUE)
    /\ UNCHANGED <<pc, error, prev_corpora, corpora, items, savevars, durable, cycle, lost>>

(***************************************************************************)
(* corpora_to_qdrant: the parent's loop over the results.                  *)
(***************************************************************************)
\* a writer that counts the records of the store before it looks at the batch
PoolNext_counts_first ==
    /\ pc = "pool"
    /\ outqueue # <<>>
    /\ LET i == Head(outqueue)
       IN  /\ task[i].state = "done"
           /\ chunks' = task[i].result
           /\ task' = [task EXCEPT ![i].state = "consumed"]
           /\ IF task[i].result # <<>>
              THEN /\ pc' = "count"
                   /\ ops' = <<>>
                   /\ index0' = index
                   /\ cycle' = [cycle EXCEPT !.written = @ \cup {i}]
              ELSE /\ cycle' = [cycle EXCEPT !.ops = @ \cup {"count"}]
                   /\ UNCHANGED <<pc, ops, index0>>
    /\ outqueue' = Tail(outqueue)
    /\ UNCHANGED <<error, prev_corpora, corpora, items, exact_match, durable, lost>>

\* the next result is a chunk list; a non-empty one goes to save_file_chunks_to_qdrant
PoolNext ==
    /\ pc = "pool"
    /\ outqueue # <<>>
    /\ LET i == Head(outqueue)
       IN  /\ task[i].state = "done"
           /\ chunks' = task[i].result
           /\ task' = [task EXCEPT ![i].state = "consumed"]
           /\ IF task[i].result # <<>>
              THEN /\ pc' = "count"
                   /\ ops' = <<>>
                   /\ index0' = index
                   /\ cycle' = [cycle EXCEPT !.written = @ \cup {i}]
              ELSE UNCHANGED <<pc, ops, index0, cycle>>
    /\ outqueue' = Tail(outqueue)
    /\ UNCHANGED <<error, prev_corpora, corpora, items, exact_match, durable, lost>>

\* the next result is the exception of a worker: the iterator re-raises it
PoolRaise ==
    /\ pc = "pool"
    /\ outqueue # <<>>
    /\ task[Head(outqueue)].state \in Raised
    /\ pc' = "exited"
    /\ error' = "document"
    /\ UNCHANGED <<prev_corpora, corpora, poolvars, savevars, durable, cycle, lost>>

\* a loop that ends as soon as no result is waiting, the pool left running
PoolDone_early ==
    /\ pc = "pool"
    /\ outqueue = <<>>
    /\ prev_corpora' = corpora
    /\ pc' = "sleep"
    /\ UNCHANGED <<error, corpora, poolvars, savevars, durable, cycle, lost>>

\* every item has been handled: corpora_to_qdrant returns, main stores the catalog
PoolDone ==
    /\ pc = "pool"
    /\ \A i \in 1..Len(items) : task[i].state = "consumed"
    /\ prev_corpora' = corpora
    /\ pc' = "sleep"
    /\ items' = <<>>
    /\ task' = <<>>
    /\ outqueue' = <<>>
    /\ UNCHANGED <<error, corpora, savevars, durable, cycle, lost>>

(***************************************************************************)
(* save_file_chunks_to_qdrant                                              *)
(***************************************************************************)
ref == chunks[1].document_ref

Log(op) ==
    /\ ops' = Append(ops, op)
    /\ cycle' = [cycle EXCEPT !.ops = @ \cup {op}]

\* the skip taken only when the index holds more records than the batch
already_indexed_more(n, batch) == n > Len(batch)

\* exact_match == len(chunks)
already_indexed(n, batch) == n = Len(batch)

\* qdrant.count, and the return when the count is the length of the batch
SaveCount ==
    /\ pc = "count"
    /\ exact_match' = qdrant_count(index, duplicates_filter(ref))
    /\ Log("count")
    /\ pc' = IF already_indexed(exact_match', chunks) THEN "returned" ELSE "delete"
    /\ UNCHANGED <<error, prev_corpora, corpora, poolvars, chunks, index0, durable, lost>>

\* a delete that is acknowledged before it is applied (wait=False)
SaveDelete_no_wait ==
    /\ pc = "delete"
    /\ Log("delete")
    /\ pc' = "encode"
    /\ UNCHANGED <<error, prev_corpora, corpora, poolvars, chunks, exact_match, index0,
                   durable, lost>>

\* qdrant.delete(..., wait=True)
SaveDelete ==
    /\ pc = "delete"
    /\ index' = qdrant_delete(index, duplicates_filter(ref))
    /\ Log("delete")
    /\ pc' = "encode"
    /\ UNCHANGED <<error, prev_corpora, corpora, poolvars, chunks, exact_match, index0,
                   cache, s3, extractions, lost>>

\* bi_encoder.encode and bm25.embed over the texts of the batch
SaveEncode ==
    /\ pc = "encode"
    /\ Log("encode")
    /\ pc' = "upload"
    /\ UNCHANGED <<error, prev_corpora, corpora, poolvars, chunks, exact_match, index0,
                   durable, lost>>

\* qdrant.upload_collection(payload=chunks, vectors=vectors)
SaveUpload ==
    /\ pc = "upload"
    /\ index' = qdrant_upload_collection(index, chunks)
    /\ ops' = Append(ops, "upload")
    /\ cycle' = [cycle EXCEPT !.ops = @ \cup {"upload"},
                              !.restored = @ \cup (lost \cap {ref})]
    /\ lost' = lost \ {ref}
    /\ pc' = "returned"
    /\ UNCHANGED <<error, prev_corpora, corpora, poolvars, chunks, exact_match, index0,
                   cache, s3, extractions>>

\* back in the loop of corpora_to_qdrant; the locals of the call are gone
SaveReturn ==
    /\ pc = "returned"
    /\ pc' = "pool"
    /\ chunks' = <<>>
    /\ exact_match' = 0
    /\ ops' = <<>>
    /\ index0' = EmptyBag
    /\ UNCHANGED <<error, prev_corpora, corpora, poolvars, durable, cycle, lost>>

\* the records of ref are deleted and not yet uploaded
Deleted == IF pc \in {"encode", "upload"} THEN {ref} ELSE {}

\* a store or encoder call of save_file_chunks_to_qdrant raises: nothing catches it
SaveRaise ==
    /\ pc \in {"count", "delete", "encode", "upload"}
    /\ pc' = "exited"
    /\ error' = "index"
    /\ lost' = lost \cup Deleted
    /\ Forget
    /\ UNCHANGED durable

(***************************************************************************)
(* The process and its supervisor.                                         *)
(***************************************************************************)
\* the process is terminated from outside during a pipeline pass, the pool's
\* workers with it
Kill ==
    /\ PoolOpen
    /\ pc' = "exited"
    /\ error' = "killed"
    /\ lost' = lost \cup Deleted
    /\ Forget
    /\ UNCHANGED durable

\* the process is started again: main begins with prev_corpora = None
Restart ==
    /\ pc = "exited"
    /\ pc' = "fetch"
    /\ error' = "none"
    /\ Forget
    /\ UNCHANGED <<durable, lost>>

Next ==
    \/ FetchOk
    \/ FetchRaise
    \/ NoChanges
    \/ StartPipeline
    \/ Sleep
    \/ \E i \in 1..Len(items) : PipelineStart(i)
    \/ \E i \in 1..Len(items) : PipelineFetchRaise(i)
    \/ \E i \in 1..Len(items) : PipelineOpen(i)
    \/ \E i \in 1..Len(items) : PipelineExtract(i)
    \/ \E i \in 1..Len(items) : PipelineExtractRaise(i)
    \/ \E i \in 1..Len(items) : PipelineRead(i)
    \/ PoolNext
    \/ PoolRaise
    \/ PoolDone
    \/ SaveCount
    \/ SaveDelete
    \/ SaveEncode
    \/ SaveUpload
    \/ SaveReturn
    \/ SaveRaise
    \/ Kill
    \/ Restart

Spec == Init /\ [][Next]_vars


(***************************************************************************)
(* Properties.                                                             *)
(***************************************************************************)
InSave == pc \in {"count", "delete", "encode", "upload", "returned"}

Did(op) == \E k \in 1..Len(ops) : ops[k] = op

OthersOf(idx, r) == Restrict(idx, { p \in DOMAIN idx : p.document_ref # r })

\* the catalog of this cycle is the one stored by the last pipeline pass
SameCatalog == cycle.prev # None /\ cycle.prev.moodle_files = corpora.moodle_files

\* C1: when an upsert of a document has completed, the records of its
\* document-ref are none or exactly the chunk set now produced for it.
C1_Original ==
    pc = "returned" =>
        \/ RecordsOf(index, ref) = EmptyBag
        \/ RecordsOf(index, ref) = SeqToBag(chunks)

\* C2: a call for a non-empty batch that found a record count other than the
\* length of the batch leaves, on return, exactly the batch's records under
\* its document-ref, each once.
C2_Theorem ==
    (pc = "returned" /\ BagCardinality(RecordsOf(index0, ref)) # Len(chunks)) =>
        RecordsOf(index, ref) = SeqToBag(chunks)

C2_Witness ==
    /\ pc = "returned"
    /\ BagCardinality(RecordsOf(index0, ref)) \notin {0, Len(chunks)}
    /\ RecordsOf(index, ref) = SeqToBag(chunks)

\* C3: a call whose batch is as long as the number of records of its
\* document-ref only counts: no delete, no encoding, no upload, and the index
\* on return is the index at the call.
C3_Theorem ==
    (pc = "returned" /\ BagCardinality(RecordsOf(index0, ref)) = Len(chunks)) =>
        /\ ops = <<"count">>
        /\ index = index0

C3_Witness ==
    /\ pc = "returned"
    /\ BagCardinality(RecordsOf(index0, ref)) = Len(chunks)
    /\ ops = <<"count">>

\* C4: a cycle whose catalog is structurally identical to the stored one
\* does not invoke the pipeline and makes no store call; a cycle whose
\* catalog differs in any way (or that has no stored catalog) invokes it.
C4_Theorem ==
    (pc = "sleep" \/ PoolOpen) =>
        /\ cycle.invoked <=> ~SameCatalog
        /\ ~cycle.invoked => cycle.ops = {}

C4_Witness ==
    /\ pc = "sleep"
    /\ SameCatalog
    /\ ~cycle.invoked
    /\ index # EmptyBag

\* C5: once the extraction of a document has raised, there is no text file
\* under the document's cache key.
C5_Original ==
    \A i \in 1..Len(items) :
        task[i].state = "extract_raised" => ~text_path_exists(cache, items[i])

\* C6: when the processing of one document raises, every other item of the
\* cycle is still processed and its result handed to the index writer.
C6_Original ==
    (pc = "exited" /\ error = "document") =>
        \A i \in 1..Len(items) : task[i].state \notin Raised => task[i].state = "consumed"

\* C7: the process never exits because a fetch, a document or an index
\* write failed.
C7_Original == error \notin {"fetch", "document", "index"}

\* C8: at the end of a cycle, every document of the catalog whose records an
\* interrupted upsert had deleted and left missing has its full chunk set in
\* the index.
C8_Theorem ==
    pc = "sleep" =>
        \A i \in 1..Len(corpora.moodle_files) :
            LET obj == corpora.moodle_files[i]
            IN  (endswith_pdf(obj.filename)
                     /\ document_ref(obj) \in lost \cup cycle.restored) =>
                    RecordsOf(index, document_ref(obj))
                        = SeqToBag(pipeline_chunks(obj, cache[text_path(obj)]))

C8_Witness ==
    /\ pc = "sleep"
    /\ \E i \in 1..Len(corpora.moodle_files) :
           /\ document_ref(corpora.moodle_files[i]) \in cycle.restored
           /\ RecordsOf(index, document_ref(corpora.moodle_files[i])) # EmptyBag

\* C9: the extraction collaborator is called at most once for a text file,
\* whatever the number of object_pipeline calls for it.
C9_Theorem == \A path \in DOMAIN extractions : extractions[path] <= 1

C9_Witness ==
    \E i \in 1..Len(items) :
        /\ task[i].state = "done"
        /\ task[i].hit
        /\ text_path(items[i]) \in DOMAIN extractions
        /\ extractions[text_path(items[i])] = 1

\* C10: an upsert touches only the records of its own document-ref: every
\* chunk of the batch carries it, and the records of every other
\* document-ref are, at each step of the call, those of the call's start.
C10_Theorem ==
    InSave =>
        /\ \A j \in 1..Len(chunks) : chunks[j].document_ref = ref
        /\ OthersOf(index, ref) = OthersOf(index0, ref)

C10_Witness ==
    /\ pc = "returned"
    /\ Did("delete")
    /\ Did("upload")
    /\ RecordsOf(index0, ref) # EmptyBag
    /\ OthersOf(index, ref) # EmptyBag


\* the document-refs of a catalog's entries
CatalogRefs(c) ==
    IF c = None THEN {}
    ELSE { document_ref(c.moodle_files[i]) : i \in 1..Len(c.moodle_files) }

\* C11: no step removes or changes a record of a document that is absent
\* from the current catalog: such records stay in the index as they are.
C11_Theorem ==
    [][\A p \in DOMAIN index :
           p.document_ref \notin CatalogRefs(corpora) =>
               (p \in DOMAIN index' /\ index'[p] = index[p])]_vars

C11_Witness ==
    /\ pc = "sleep"
    /\ cycle.invoked
    /\ \E p \in DOMAIN index : p.document_ref \notin CatalogRefs(corpora)

Active == { i \in 1..Len(items) : task[i].state \in {"queued", "started", "extracting"} }

\* C12: a cycle is fetch, compare, optional pipeline pass, sleep, in that
\* order; a poll starts only from the sleep (or a fresh start), and no item
\* of a pass is queued or running when the pass has ended.
C12_Theorem ==
    [][/\ (pc' = "fetch" /\ pc # "fetch") => pc \in {"sleep", "exited"}
       /\ (pc' = "compare" /\ pc # "compare") => pc = "fetch"
       /\ (pc' = "pool" /\ pc # "pool") => pc \in {"compare", "returned"}
       /\ (pc' = "sleep" /\ pc # "sleep") => pc \in {"compare", "pool"}
       /\ pc' \in {"sleep", "fetch", "compare"} => Active' = {}]_vars

C12_Witness ==
    /\ pc = "fetch"
    /\ cycle.invoked
    /\ cycle.ops # {}
    /\ prev_corpora = corpora

\* C13: every chunk object_pipeline returns for an entry carries the entry's
\* course_id, module_id and filename, and the chunks are numbered 0, 1, ...
\* in the order of the splitter's segments.
C13_Theorem ==
    \A i \in 1..Len(items) :
        task[i].state \in {"done", "consumed"} =>
            LET obj == items[i]
                out == task[i].result
                splitted == split_text(clean_text(meta_prefix(obj) \o cache[text_path(obj)]))
            IN  /\ Len(out) = Len(splitted)
                /\ \A j \in 1..Len(out) :
                       /\ out[j].document_ref.course_id = obj.course_id
                       /\ out[j].document_ref.module_id = obj.module_id
                       /\ out[j].document_ref.filename = obj.filename
                       /\ out[j].chunk_ref.chunk_number = j - 1
                       /\ out[j].text = splitted[j]

C13_Witness ==
    \E i \in 1..Len(items) :
        /\ task[i].state = "done"
        /\ Len(task[i].result) >= 2


Last(seq) == seq[Len(seq)]

\* C14: nothing is fetched, converted or indexed for an entry whose
\* filename does not end with ".pdf": every item of a pass, every raw file,
\* every text file and every record belongs to a ".pdf" filename.
C14_Theorem ==
    /\ \A i \in 1..Len(items) : Last(items[i].filename) = ".pdf"
    /\ \A file \in s3 : Last(file[2][4]) = ".pdf"
    /\ \A path \in DOMAIN cache : Last(path[3][4]) = ".pdf"
    /\ \A path \in DOMAIN extractions : Last(path[3][4]) = ".pdf"
    /\ \A p \in DOMAIN index : Last(p.document_ref.filename) = ".pdf"

C14_Witness ==
    /\ pc = "sleep"
    /\ cycle.invoked
    /\ cycle.ops # {}
    /\ \E i \in 1..Len(corpora.moodle_files) : Last(corpora.moodle_files[i].filename) # ".pdf"

IsPrefix(a, b) == Len(a) <= Len(b) /\ SubSeq(b, 1, Len(a)) = a

\* C15: inside one call the store and encoder calls come in the order count,
\* delete, encode, upload; until the delete is done the index is the one of
\* the call's start, and when the encoding starts no record of the
\* document-ref is in the index.
C15_Theorem ==
    InSave =>
        /\ IsPrefix(ops, <<"count", "delete", "encode", "upload">>)
        /\ pc \in {"count", "delete"} => index = index0
        /\ pc \in {"encode", "upload"} => RecordsOf(index, ref) = EmptyBag

C15_Witness ==
    /\ pc = "upload"
    /\ ops = <<"count", "delete", "encode">>
    /\ RecordsOf(index0, ref) # EmptyBag
    /\ RecordsOf(index, ref) = EmptyBag

\* C16: a cycle that starts with no stored catalog runs the pipeline pass,
\* whatever catalog was fetched.
C16_Theorem ==
    ((pc = "sleep" \/ PoolOpen) /\ cycle.prev = None) => cycle.invoked

C16_Witness ==
    /\ pc = "sleep"
    /\ cycle.prev = None
    /\ corpora.moodle_files = <<>>
    /\ cycle.invoked

\* C17: when the result taken from the pool is an empty chunk list, the
\* parent stays in its loop: no store call is made and the index is left
\* as it is.
C17_Theorem ==
    [][(/\ pc = "pool"
        /\ pc' # "exited"
        /\ outqueue # <<>>
        /\ task[Head(outqueue)].state = "done"
        /\ task[Head(outqueue)].result = <<>>
        /\ task'[Head(outqueue)].state = "consumed")
       => (pc' = "pool" /\ index' = index /\ cycle'.ops = cycle.ops /\ ops' = ops)]_vars

C17_Witness ==
    \E i \in 1..Len(items) :
        /\ task[i].state = "consumed"
        /\ task[i].result = <<>>
        /\ RecordsOf(index, document_ref(items[i])) # EmptyBag


\* C18: while the process runs, the stored catalog changes only when a
\* pipeline pass, run because the fetched catalog differed, returns, and it
\* is then the fetched catalog; no other step assigns it.
C18_Theorem ==
    [][(prev_corpora' # prev_corpora /\ pc # "exited" /\ pc' # "exited") =>
           /\ pc = "pool"
           /\ pc' = "sleep"
           /\ cycle.invoked
           /\ ~SameCatalog
           /\ prev_corpora' = corpora
           /\ corpora' = corpora]_vars

C18_Witness ==
    /\ pc = "sleep"
    /\ cycle.invoked
    /\ cycle.prev # None
    /\ cycle.prev # corpora
    /\ prev_corpora = corpora

\* C19: when a call has returned, the number of records of the batch's
\* document-ref is the length of the batch, so a call repeated with the same
\* batch finds the count equal and returns without a write.
C19_Theorem ==
    pc = "returned" =>
        /\ BagCardinality(RecordsOf(index, ref)) = Len(chunks)
        /\ already_indexed(qdrant_count(index, duplicates_filter(ref)), chunks)

C19_Witness ==
    /\ pc = "returned"
    /\ Did("upload")
    /\ BagCardinality(RecordsOf(index, ref)) = Len(chunks)
    /\ Len(chunks) >= 2

InCall == pc \in {"count", "delete", "encode", "upload"}

\* C20: the index is written only by the parent, inside one call at a time:
\* a step that changes the index or makes a store call is a step of the
\* call in progress, not of a worker, and the batch of a call in progress
\* does not change before the call has returned.
C20_Theorem ==
    [][/\ index' # index => (pc \in {"delete", "upload"} /\ task' = task /\ chunks' = chunks)
       /\ (ops' # ops /\ ops' # <<>>) => (InCall /\ task' = task /\ chunks' = chunks)
       /\ (InCall /\ pc' # "exited") => (chunks' = chunks /\ pc' # "pool")]_vars

C20_Witness ==
    /\ pc = "delete"
    /\ RecordsOf(index, ref) # EmptyBag
    /\ outqueue # <<>>
    /\ task[Head(outqueue)].state = "done"
    /\ task[Head(outqueue)].result # <<>>


====
